---- MODULE Spec2Model ----
(***************************************************************************)
(* HeliosOS: the application lifecycle orchestrator                        *)
(* (app/application_manager.py, ApplicationManager) and the workflow       *)
(* execution engine on top of it (app/workflow_engine.py, WorkflowEngine). *)
(*                                                                         *)
(* Both run on one asyncio event loop.  A coroutine runs without           *)
(* interruption until it awaits something that really suspends: a          *)
(* subprocess of the container runtime, asyncio.sleep, the command         *)
(* processor.  Awaiting another coroutine of the program does not suspend  *)
(* by itself.  One step of the model is therefore one run of one task from *)
(* the event that wakes it to its next suspension (or its end); Run        *)
(* computes it.                                                            *)
(***************************************************************************)
EXTENDS Integers, Sequences, FiniteSets, TLC

VARIABLES
    running_instances,  \* ApplicationManager.running_instances: name -> instance
    live,               \* container runtime: handles of the containers it
                        \* holds (running, or stopped and not yet removed)
    workflows,          \* WorkflowEngine.workflows: id -> definition
    executions,         \* WorkflowEngine.executions: id -> execution
    clock,              \* datetime.now(), as the number of timestamps taken
    created,            \* number of workflows create_workflow has made
    stack,              \* per task (an API caller's call, an execution's
                        \* background task): its coroutine stack
    history,            \* history variable: the executions cancel_execution
                        \* returned True for, and the steps each execution's
                        \* workflow had when execute_workflow was called
    reply               \* what the last call of a synchronous operation of
                        \* the workflow engine gave back to its caller

vars ==
    <<running_instances, live, workflows, executions, clock, created, stack,
      history, reply>>

(***************************************************************************)
(* Bounds of the model.                                                    *)
(***************************************************************************)
MaxHandles == 2      \* container handles the runtime can hand out at once
MaxExecutions == 1   \* executions created by execute_workflow

None == "none"

(***************************************************************************)
(* The application catalog (_initialize_applications): the names and the   *)
(* dependency lists.                                                       *)
(***************************************************************************)
applications ==
    {"libreoffice", "odoo", "rocketchat", "joplin", "zotero", "vscode",
     "gitea", "portainer", "firefox", "postgresql", "mongodb"}

DependenciesDangling(app) ==
    CASE app = "odoo" -> <<"redis">>
      [] OTHER -> <<>>
dependencies(app) ==
    CASE app = "odoo" -> <<"postgresql">>
      [] app = "rocketchat" -> <<"mongodb">>
      [] OTHER -> <<>>

\* The names API callers pass: a dependent application, its dependency, and
\* a name that is not in the catalog.
CallApps == {"odoo", "postgresql", "nonexistent"}
Callers == {"c1", "c2"}
Users == {"alice", "bob"}
\* The identity that executes workflows.
ExecUsers == {"alice"}
\* The identity that creates workflows.
CreateUsers == {"alice"}

(***************************************************************************)
(* ApplicationStatus and the result dictionaries of the orchestrator.      *)
(* code names the branch that built the dictionary.                        *)
(***************************************************************************)
STOPPED == "stopped"
RUNNING == "running"
ERROR == "error"

Ok(code) == [success |-> TRUE, code |-> code]
Fail(code) == [success |-> FALSE, code |-> code]

ApplicationInstance(h) == [container_id |-> h, status |-> RUNNING]

\* get_application_status
get_application_status(ri, app) ==
    IF app \in DOMAIN ri THEN ri[app].status ELSE STOPPED

Registered(ri, app) == app \in DOMAIN ri

\* d[k] = v and del d[k] on a dictionary
DictSet(d, k, v) == [x \in DOMAIN d \cup {k} |-> IF x = k THEN v ELSE d[x]]
DictDelAll(d, k) == <<>>
DictDel(d, k) == [x \in DOMAIN d \ {k} |-> d[x]]

(***************************************************************************)
(* The machine a task runs on: the shared state it may change, its own     *)
(* stack (top = last frame) and the signal the top frame sees next.        *)
(***************************************************************************)
SigCall == [t |-> "call"]
SigRet(v) == [t |-> "ret", v |-> v]
SigRaise(e) == [t |-> "raise", v |-> e]
SigEv(o, h) == [t |-> "ev", v |-> o, h |-> h]
SigWait == [t |-> "wait"]
SigDone == [t |-> "done"]

Top(m) == m.stk[Len(m.stk)]
SetTop(m, f) == [m EXCEPT !.stk[Len(m.stk)] = f]
\* await <coroutine>: the callee starts at once, in the same run.
Push(m, f) == [m EXCEPT !.stk = Append(@, f), !.sig = SigCall]
\* await <something that suspends>: the task yields to the event loop.
Suspend(m, f) == [SetTop(m, f) EXCEPT !.sig = SigWait]
\* return v: to the awaiting frame, or to the API caller.
Return(m, v) ==
    LET n == Len(m.stk) IN
    IF n = 1
    THEN [m EXCEPT !.stk = << [k |-> "returned", op |-> m.stk[1].k,
                               app |-> m.stk[1].app, res |-> v] >>,
                   !.sig = SigDone]
    ELSE [m EXCEPT !.stk = SubSeq(@, 1, n - 1), !.sig = SigRet(v)]

StartFrame(app) == [k |-> "start", app |-> app, pc |-> "call", di |-> 0]
StopFrame(app) == [k |-> "stop", app |-> app, pc |-> "call", h |-> 0]
RestartFrame(app) == [k |-> "restart", app |-> app, pc |-> "call"]

(***************************************************************************)
(* start_application                                                       *)
(***************************************************************************)
\* "Check if already running": the early success return.
AlreadyRunningUnchecked(ri, app) == FALSE
AlreadyRunning(ri, app) == Registered(ri, app) /\ ri[app].status = RUNNING

\* "if not dep_result.get('success')"
DependencyFailedIgnored(v) == FALSE
DependencyFailed(v) == ~v.success

\* The dependency loop from dependency number di on, then the docker run.
StartDepsSkipped(m, di) == Suspend(m, [Top(m) EXCEPT !.pc = "launching"])
StartDeps(m, di) ==
    LET f == Top(m) IN
    IF di <= Len(dependencies(f.app))
    THEN Push(SetTop(m, [f EXCEPT !.pc = "deps", !.di = di]),
              StartFrame(dependencies(f.app)[di]))
    ELSE Suspend(m, [f EXCEPT !.pc = "launching"])

\* The registration after a docker run that returned 0.
RegisterInstance(ri, app, h) == DictSet(ri, app, ApplicationInstance(h))

\* The else branch after a docker run that returned non-zero.
LaunchFailedRegistered(m) ==
    Return([m EXCEPT !.ri = RegisterInstance(@, Top(m).app, 0)],
           Fail("LaunchError"))
LaunchFailedRollback(m) ==
    LET deps == {dependencies(Top(m).app)[i] :
                    i \in DOMAIN dependencies(Top(m).app)}
    IN  Return([m EXCEPT !.ri = [a \in DOMAIN m.ri \ deps |-> m.ri[a]]],
               Fail("LaunchError"))
LaunchFailed(m) == Return(m, Fail("LaunchError"))

start_application(m) ==
    LET f == Top(m) IN
    CASE m.sig.t = "call" ->
            IF f.app \notin applications THEN Return(m, Fail("NotFound"))
            ELSE IF AlreadyRunning(m.ri, f.app)
                 THEN Return(m, Ok("AlreadyRunning"))
                 ELSE StartDeps(m, 1)
      [] m.sig.t = "ret" ->
            IF DependencyFailed(m.sig.v) THEN Return(m, Fail("DependencyFailed"))
            ELSE StartDeps(m, f.di + 1)
      [] m.sig.t = "ev" ->
            CASE m.sig.v = "ok" ->
                    Return([m EXCEPT !.ri = RegisterInstance(@, f.app, m.sig.h),
                                     !.live = @ \cup {m.sig.h}],
                           Ok("Started"))
              [] m.sig.v = "fail" -> LaunchFailed(m)
              [] OTHER -> Return(m, Fail("Exception"))

(***************************************************************************)
(* stop_application                                                        *)
(***************************************************************************)
stop_application(m) ==
    LET f == Top(m) IN
    CASE m.sig.t = "call" ->
            IF ~Registered(m.ri, f.app) THEN Return(m, Fail("NotRunning"))
            ELSE Suspend(m, [f EXCEPT !.pc = "stopping",
                                      !.h = m.ri[f.app].container_id])
      [] m.sig.t = "ev" /\ f.pc = "stopping" ->
            CASE m.sig.v = "ok" -> Suspend(m, [f EXCEPT !.pc = "removing"])
              [] m.sig.v = "fail" -> Return(m, Fail("StopError"))
              [] OTHER -> Return(m, Fail("Exception"))
      [] m.sig.t = "ev" /\ f.pc = "removing" ->
            \* docker rm was spawned and removes the container ("ok") or
            \* fails to ("fail"): its exit status is not looked at; or
            \* spawning it raised.  del raises KeyError when another stop
            \* already removed the entry.
            LET r == IF m.sig.v = "ok" THEN [m EXCEPT !.live = @ \ {f.h}] ELSE m
            IN  IF m.sig.v = "raise" THEN Return(m, Fail("Exception"))
                ELSE IF ~Registered(m.ri, f.app)
                     THEN Return(r, Fail("Exception"))
                     ELSE Return([r EXCEPT !.ri = DictDel(@, f.app)],
                                 Ok("Stopped"))

(***************************************************************************)
(* restart_application                                                     *)
(***************************************************************************)
\* "if not stop_result.get('success')"
StopFailedIgnored(v) == FALSE
StopFailed(v) == ~v.success

restart_application(m) ==
    LET f == Top(m) IN
    CASE m.sig.t = "call" ->
            Push(SetTop(m, [f EXCEPT !.pc = "stop"]), StopFrame(f.app))
      [] m.sig.t = "ret" /\ f.pc = "stop" ->
            IF StopFailed(m.sig.v) THEN Return(m, m.sig.v)
            ELSE Suspend(m, [f EXCEPT !.pc = "sleeping"])
      [] m.sig.t = "ev" ->
            Push(SetTop(m, [f EXCEPT !.pc = "start"]), StartFrame(f.app))
      [] m.sig.t = "ret" /\ f.pc = "start" -> Return(m, m.sig.v)

(***************************************************************************)
(* Workflow data: WorkflowStep, WorkflowDefinition, WorkflowExecution.     *)
(* A step's id is its position in the definition.  The timestamps          *)
(* started_at and executed_at are not modelled.                            *)
(***************************************************************************)
PENDING == "pending"
COMPLETED == "completed"
FAILED == "failed"
CANCELLED == "cancelled"

WorkflowStep(type, action, application, command, on_failure, retry_count) ==
    [type |-> type, action |-> action, application |-> application,
     command |-> command, on_failure |-> on_failure,
     retry_count |-> retry_count, timeout |-> 30, duration |-> <<>>]

AppStep(action, app, on_failure) ==
    WorkflowStep("application", action, app, "", on_failure, 0)
CommandStep(command, on_failure) ==
    WorkflowStep("command", "", "", command, on_failure, 0)
\* duration is parameters["duration"]: <<>> when the key is absent, <<d>>
\* when it is configured as d.
DelayStep(duration) ==
    [WorkflowStep("delay", "", "", "", "stop", 0) EXCEPT !.duration = duration]
ConditionStep(on_failure, retry_count) ==
    WorkflowStep("condition", "", "", "", on_failure, retry_count)

WorkflowDefinition(category, steps, created_by, is_public) ==
    [category |-> category, steps |-> steps, created_by |-> created_by,
     is_public |-> is_public]

\* _initialize_default_workflows
DefaultWorkflows ==
    [id \in {"morning_business", "dev_environment", "study_session",
             "quick_start"} |->
        CASE id = "morning_business" ->
                WorkflowDefinition("business",
                    << AppStep("start", "firefox", "stop"), DelayStep(<<3>>),
                       AppStep("start", "libreoffice", "stop"),
                       AppStep("start", "rocketchat", "stop"),
                       CommandStep("show system status", "stop") >>,
                    "system", TRUE)
          [] id = "dev_environment" ->
                WorkflowDefinition("programmer",
                    << AppStep("start", "vscode", "stop"),
                       AppStep("start", "gitea", "stop"),
                       AppStep("start", "portainer", "stop"),
                       CommandStep("open terminal", "stop") >>,
                    "system", TRUE)
          [] id = "study_session" ->
                WorkflowDefinition("student",
                    << AppStep("start", "joplin", "stop"),
                       AppStep("start", "zotero", "stop"),
                       AppStep("start", "firefox", "stop"),
                       CommandStep("create folder", "stop") >>,
                    "system", TRUE)
          [] OTHER ->
                WorkflowDefinition("general",
                    << AppStep("start", "firefox", "stop"),
                       CommandStep("open file manager", "stop"),
                       CommandStep("show system status", "stop") >>,
                    "system", TRUE)]

\* The step lists callers hand to create_workflow.
StepData ==
    { <<>>,
      << DelayStep(<<>>), ConditionStep("stop", 0),
         CommandStep("status", "stop") >>,
      << DelayStep(<<2>>), ConditionStep("continue", 0),
         CommandStep("status", "stop") >>,
      << AppStep("start", "odoo", "stop"),
         AppStep("stop", "postgresql", "continue") >>,
      << ConditionStep("retry", 1), AppStep("start", "postgresql", "stop"),
         AppStep("restart", "postgresql", "stop") >>,
      << CommandStep("", "continue"), AppStep("open", "odoo", "retry") >> }

\* The ids uuid4 gives the workflows create_workflow makes.
CreatedIds == <<"w1">>
\* The workflow ids callers pass to execute_workflow and delete_workflow.
WorkflowIds == {"unknown"} \cup {CreatedIds[i] : i \in DOMAIN CreatedIds}

WorkflowExecutionRunning(workflow_id, user) ==
    [workflow_id |-> workflow_id, status |-> RUNNING, current_step |-> 0,
     completed_at |-> 0, executed_by |-> user, results |-> <<>>,
     error_message |-> None]
WorkflowExecution(workflow_id, user) ==
    [workflow_id |-> workflow_id, status |-> PENDING, current_step |-> 0,
     completed_at |-> 0, executed_by |-> user, results |-> <<>>,
     error_message |-> None]

NoResult == [success |-> FALSE, code |-> None]
SuccessRecordMislabelled(i, result) ==
    [step_id |-> i + 1, success |-> TRUE, result |-> result, error |-> None]
SuccessRecord(i, result) ==
    [step_id |-> i, success |-> TRUE, result |-> result, error |-> None]
FailureRecord(i, error) ==
    [step_id |-> i, success |-> FALSE, result |-> NoResult, error |-> error]

UnitFrame(eid) ==
    [k |-> "unit", app |-> None, eid |-> eid, pc |-> "scheduled",
     steps |-> <<>>, i |-> 0]

(***************************************************************************)
(* _execute_workflow_steps and the step interpreters                       *)
(***************************************************************************)
\* The task of the execution ends; its frame stays, at pc "done".
Finish(m) ==
    [m EXCEPT !.stk = << [Top(m) EXCEPT !.pc = "done"] >>, !.sig = SigDone]

\* datetime.now() stored as the completion time
Stamp(m, eid) ==
    [m EXCEPT !.clk = @ + 1, !.ex[eid].completed_at = m.clk + 1]

\* The outer except clause.
UnitFailed(m, eid, error) ==
    Finish(Stamp([m EXCEPT !.ex[eid].status = FAILED,
                           !.ex[eid].error_message = error], eid))

\* After the loop.
UnitCompletedAll(m, eid) ==
    Finish(Stamp([m EXCEPT !.ex = [x \in DOMAIN m.ex |->
                                     [m.ex[x] EXCEPT !.status = COMPLETED]]],
                 eid))
UnitCompleted(m, eid) ==
    Finish(Stamp([m EXCEPT !.ex[eid].status = COMPLETED], eid))

\* _execute_step up to its suspension: the frame to await, or the error raised.
execute_step(m, step) ==
    LET f == Top(m) IN
    CASE step.type = "command" ->
            IF step.command = "" THEN [m EXCEPT !.sig = SigRaise("ValueError")]
            ELSE Suspend(m, [f EXCEPT !.pc = "command"])
      [] step.type = "application" ->
            IF step.action = "" \/ step.application = ""
            THEN [m EXCEPT !.sig = SigRaise("ValueError")]
            ELSE CASE step.action = "start" ->
                        Push(SetTop(m, [f EXCEPT !.pc = "application"]),
                             StartFrame(step.application))
                   [] step.action = "stop" ->
                        Push(SetTop(m, [f EXCEPT !.pc = "application"]),
                             StopFrame(step.application))
                   [] step.action = "restart" ->
                        Push(SetTop(m, [f EXCEPT !.pc = "application"]),
                             RestartFrame(step.application))
                   [] OTHER -> [m EXCEPT !.sig = SigRaise("ValueError")]
      [] step.type = "delay" -> Suspend(m, [f EXCEPT !.pc = "delay"])
      [] OTHER -> [m EXCEPT !.sig = SigRaise("ValueError")]

\* The loop from step number i on (current_step counts from 0).
RunSteps(m, i) ==
    LET f == Top(m) IN
    IF i > Len(f.steps) THEN UnitCompleted(m, f.eid)
    ELSE execute_step(SetTop([m EXCEPT !.ex[f.eid].current_step = i - 1],
                             [f EXCEPT !.i = i]),
                      f.steps[i])

\* The step returned: the record appended in the try branch.
StepReturnedUnrecorded(m, result) == RunSteps(m, Top(m).i + 1)
StepReturned(m, result) ==
    LET f == Top(m) IN
    RunSteps([m EXCEPT !.ex[f.eid].results =
                            Append(@, SuccessRecord(f.i, result))],
             f.i + 1)

\* The step raised: the record appended in the except branch, then on_failure.
StepRaised(m, error) ==
    LET f == Top(m)
        rec == [m EXCEPT !.ex[f.eid].results =
                            Append(@, FailureRecord(f.i, error))]
    IN  IF f.steps[f.i].on_failure = "stop"
        THEN UnitFailed(rec, f.eid, error)
        ELSE RunSteps(rec, f.i + 1)

execute_workflow_steps(m) ==
    LET f == Top(m)
        wid == m.ex[f.eid].workflow_id
    IN  CASE m.sig.t = "ev" /\ f.pc = "scheduled" ->
                IF wid \notin DOMAIN m.wfs THEN UnitFailed(m, f.eid, "KeyError")
                ELSE RunSteps(SetTop([m EXCEPT !.ex[f.eid].status = RUNNING],
                                     [f EXCEPT !.steps = m.wfs[wid].steps]),
                              1)
          [] m.sig.t = "raise" -> StepRaised(m, m.sig.v)
          [] m.sig.t = "ret" -> StepReturned(m, m.sig.v)
          [] m.sig.t = "ev" /\ f.pc = "command" ->
                StepReturned(m, [success |-> m.sig.v = "ok", code |-> "command"])
          [] m.sig.t = "ev" /\ f.pc = "delay" -> StepReturned(m, Ok("delay"))

(***************************************************************************)
(* One run of a task: from the signal it wakes on to its next suspension.  *)
(***************************************************************************)
Step(m) ==
    CASE Top(m).k = "start" -> start_application(m)
      [] Top(m).k = "stop" -> stop_application(m)
      [] Top(m).k = "restart" -> restart_application(m)
      [] OTHER -> execute_workflow_steps(m)

RECURSIVE Run(_)
Run(m) ==
    LET n == Step(m) IN
    IF n.sig.t \in {"wait", "done"} THEN n ELSE Run(n)

Machine(stk, sig) ==
    [ri |-> running_instances, live |-> live, ex |-> executions,
     clk |-> clock, wfs |-> workflows, stk |-> stk, sig |-> sig]

Commit(t, m) ==
    /\ running_instances' = m.ri
    /\ live' = m.live
    /\ executions' = m.ex
    /\ clock' = m.clk
    /\ stack' = [stack EXCEPT ![t] = m.stk]
    /\ UNCHANGED <<workflows, created, history, reply>>

(***************************************************************************)
(* Tasks and what they wait for.                                           *)
(***************************************************************************)
ExecIds == <<"e1", "e2", "e3", "e4">>
\* The executions created where two of them run side by side.
Units == {"e1", "e2"}
\* The execution ids of the engine when executions are created one by one.
ExecutionIds == {ExecIds[i] : i \in 1..MaxExecutions}
Tasks == Callers \cup Units \cup ExecutionIds

Idle(t) == IF stack[t] = <<>> THEN TRUE ELSE stack[t][1].k = "returned"
Waiting(t, k, pc) ==
    /\ ~Idle(t)
    /\ stack[t][Len(stack[t])].k = k
    /\ stack[t][Len(stack[t])].pc = pc

\* The handles the runtime or the program still holds.
UsedHandles ==
    live \cup {running_instances[a].container_id : a \in DOMAIN running_instances}
         \cup UNION {{stack[t][j].h :
                         j \in {i \in DOMAIN stack[t] : stack[t][i].k = "stop"}} :
                      t \in Tasks}
FreeHandles == (1..MaxHandles) \ UsedHandles
\* A container id is fresh: the runtime never hands out one still in use.
FreshHandle == CHOOSE h \in FreeHandles : \A g \in FreeHandles : h <= g

Resume(t, o, h) == Commit(t, Run(Machine(stack[t], SigEv(o, h))))

(***************************************************************************)
(* The calls of the API callers on the orchestrator.                       *)
(***************************************************************************)
CallStart(c, app) ==
    /\ Idle(c)
    /\ Commit(c, Run(Machine(<<StartFrame(app)>>, SigCall)))

CallStop(c, app) ==
    /\ Idle(c)
    /\ Commit(c, Run(Machine(<<StopFrame(app)>>, SigCall)))

CallRestart(c, app) ==
    /\ Idle(c)
    /\ Commit(c, Run(Machine(<<RestartFrame(app)>>, SigCall)))

(***************************************************************************)
(* The container runtime, the timer and the command processor answer.      *)
(***************************************************************************)
\* docker run exits 0 and prints the id of the new container
LaunchOk(t) ==
    /\ Waiting(t, "start", "launching")
    /\ FreeHandles # {}
    /\ Resume(t, "ok", FreshHandle)

\* docker run exits non-zero, or spawning it raises
LaunchFails(t) ==
    /\ Waiting(t, "start", "launching")
    /\ \E o \in {"fail", "raise"} : Resume(t, o, 0)

\* docker stop exits 0
StopOk(t) ==
    /\ Waiting(t, "stop", "stopping")
    /\ Resume(t, "ok", 0)

\* docker stop exits non-zero, or spawning it raises
StopFails(t) ==
    /\ Waiting(t, "stop", "stopping")
    /\ \E o \in {"fail", "raise"} : Resume(t, o, 0)

\* docker rm is spawned and removes the container or fails to, or spawning
\* it raises
RemoveDone(t) ==
    /\ Waiting(t, "stop", "removing")
    /\ \E o \in {"ok", "fail", "raise"} : Resume(t, o, 0)

\* asyncio.sleep(2) of restart_application is over
SettleDone(t) ==
    /\ Waiting(t, "restart", "sleeping")
    /\ Resume(t, "wake", 0)

\* process_command returns its CommandResult (it catches every exception)
CommandDone(e) ==
    /\ Waiting(e, "unit", "command")
    /\ \E o \in {"ok", "fail"} : Resume(e, o, 0)

\* asyncio.sleep(duration) of a delay step is over
DelayDone(e) ==
    /\ Waiting(e, "unit", "delay")
    /\ Resume(e, "wake", 0)

\* the event loop runs the task execute_workflow created
UnitStart(e) ==
    /\ Waiting(e, "unit", "scheduled")
    /\ Resume(e, "go", 0)

(***************************************************************************)
(* The synchronous operations of the workflow engine.                      *)
(***************************************************************************)
\* What the caller user of op(arg) got: the id returned (None without
\* one), and ok: the boolean returned, or whether the call returned at all.
Reply(op, arg, user, id, ok) ==
    [op |-> op, arg |-> arg, user |-> user, id |-> id, ok |-> ok]

\* execute_workflow: the id it returns, or None when it raises ValueError.
execute_workflow_result(wid) ==
    IF wid \notin DOMAIN workflows THEN None
    ELSE ExecIds[Cardinality(DOMAIN executions) + 1]

execute_workflow_within(wid, user, max) ==
    /\ Cardinality(DOMAIN executions) < max
    /\ LET eid == execute_workflow_result(wid) IN
       /\ reply' = Reply("execute", wid, user, eid, eid # None)
       /\ IF eid = None
          THEN UNCHANGED <<running_instances, live, workflows, executions, clock,
                           created, stack, history>>
          ELSE
            /\ executions' = DictSet(executions, eid, WorkflowExecution(wid, user))
            /\ stack' = [stack EXCEPT ![eid] = <<UnitFrame(eid)>>]
            /\ history' = [history EXCEPT
                              !.steps = DictSet(@, eid, workflows[wid].steps)]
            /\ UNCHANGED <<running_instances, live, workflows, clock, created>>

execute_workflow(wid, user) ==
    execute_workflow_within(wid, user, MaxExecutions)

\* get_execution_status: None for an unknown id, the KeyError the lookup of
\* the workflow raises when the definition is gone, or the view.
get_execution_status(eid) ==
    IF eid \notin DOMAIN executions THEN [outcome |-> None]
    ELSE IF executions[eid].workflow_id \notin DOMAIN workflows
         THEN [outcome |-> "raise", error |-> "KeyError"]
         ELSE [outcome |-> "view",
               view |-> [execution_id |-> eid,
                         status |-> executions[eid].status,
                         current_step |-> executions[eid].current_step,
                         total_steps |->
                             Len(workflows[executions[eid].workflow_id].steps),
                         completed_at |-> executions[eid].completed_at,
                         results |-> executions[eid].results,
                         error_message |-> executions[eid].error_message]]

\* cancel_execution: its return value, and the call.
CancelAnyStatus(eid) == eid \in DOMAIN executions
cancel_execution_result(eid) ==
    eid \in DOMAIN executions /\ executions[eid].status = RUNNING

cancel_execution(eid) ==
    /\ reply' = Reply("cancel", eid, None, None, cancel_execution_result(eid))
    /\ IF cancel_execution_result(eid)
       THEN /\ executions' = [executions EXCEPT ![eid].status = CANCELLED,
                                                ![eid].completed_at = clock + 1]
            /\ clock' = clock + 1
            /\ history' = [history EXCEPT !.cancelled = @ \cup {eid}]
            /\ UNCHANGED <<running_instances, live, workflows, created, stack>>
       ELSE UNCHANGED <<running_instances, live, workflows, executions, clock,
                        created, stack, history>>

create_workflow(steps, user, is_public) ==
    /\ created < Len(CreatedIds)
    /\ workflows' = DictSet(workflows, CreatedIds[created + 1],
                            WorkflowDefinition("custom", steps, user, is_public))
    /\ created' = created + 1
    /\ reply' = Reply("create", None, user, CreatedIds[created + 1], TRUE)
    /\ UNCHANGED <<running_instances, live, executions, clock, stack, history>>

\* _estimate_workflow_duration: what one step adds to total_duration, and the
\* loop over workflow.steps.
StepDurationFlat(step) == 1
step_duration(step) ==
    CASE step.type = "delay" ->
            IF step.duration = <<>> THEN 1 ELSE step.duration[1]
      [] step.type = "application" -> 5
      [] step.type = "command" -> 2
      [] OTHER -> 1

RECURSIVE total_duration(_, _, _)
total_duration(steps, i, total) ==
    IF i > Len(steps) THEN total
    ELSE total_duration(steps, i + 1, total + step_duration(steps[i]))

estimate_workflow_duration(workflow) == total_duration(workflow.steps, 1, 0)

\* list_workflows: the filter on one workflow, and the workflow_info
\* dictionaries returned, by workflow id.  category and user_id are None when
\* the caller does not give them.
ListedToAll(workflow, category, user_id) == TRUE
Listed(workflow, category, user_id) ==
    IF category # None /\ workflow.category # category THEN FALSE
    ELSE workflow.is_public \/ (user_id # None /\ workflow.created_by = user_id)

list_workflows(category, user_id) ==
    [id \in {w \in DOMAIN workflows :
                Listed(workflows[w], category, user_id)} |->
        [category |-> workflows[id].category,
         created_by |-> workflows[id].created_by,
         is_public |-> workflows[id].is_public,
         step_count |-> Len(workflows[id].steps),
         estimated_duration |-> estimate_workflow_duration(workflows[id])]]

\* The category filters and identities callers pass to list_workflows.
Categories == {None, "business", "custom"}
ListUsers == Users \cup {None}

\* delete_workflow: its return value, and the call.
DeleteUnauthorized(wid, user) == wid \in DOMAIN workflows
delete_workflow_result(wid, user) ==
    /\ wid \in DOMAIN workflows
    /\ ~(workflows[wid].created_by # user /\ ~workflows[wid].is_public)

delete_workflow(wid, user) ==
    /\ reply' = Reply("delete", wid, user, None,
                      delete_workflow_result(wid, user))
    /\ IF delete_workflow_result(wid, user)
       THEN /\ workflows' = DictDel(workflows, wid)
            /\ UNCHANGED <<running_instances, live, executions, clock, created,
                           stack, history>>
       ELSE UNCHANGED <<running_instances, live, workflows, executions, clock,
                        created, stack, history>>

(***************************************************************************)
(* execute_application_action.  The parameters argument is None (the       *)
(* default) or a dictionary; the two action helpers call parameters.get,   *)
(* which raises AttributeError on None.  The coroutine has no try block    *)
(* and never suspends, so the call is one step that ends in a result       *)
(* dictionary or in the exception reaching the caller.                     *)
(***************************************************************************)
NoParameters == [dict |-> FALSE]
Parameters(path) == [dict |-> TRUE, document_path |-> path]
Raised(e) == [raised |-> TRUE, error |-> e]

AllControllable(app) == TRUE
ai_controllable(app) == app \notin {"postgresql", "mongodb"}

libreoffice_open_document(parameters) ==
    IF parameters.dict THEN Ok("open_document") ELSE Raised("AttributeError")

vscode_create_project(parameters) ==
    IF parameters.dict THEN Ok("create_project") ELSE Raised("AttributeError")

execute_application_action(app_name, action, parameters) ==
    IF app_name \notin applications THEN Fail("NotFound")
    ELSE IF ~ai_controllable(app_name) THEN Fail("NotControllable")
    ELSE IF action = "open_document" /\ app_name = "libreoffice"
         THEN libreoffice_open_document(parameters)
    ELSE IF action = "create_project" /\ app_name = "vscode"
         THEN vscode_create_project(parameters)
    ELSE Fail("Unsupported")

\* The names, action ids and parameters API callers pass to
\* execute_application_action.
ActionApps == {"libreoffice", "vscode", "postgresql", "nonexistent"}
Actions == {"open_document", "create_project"}
ParameterValues == {NoParameters, Parameters("report.odt")}

CallAction(c, app, action, parameters) ==
    /\ Idle(c)
    /\ stack' = [stack EXCEPT ![c] =
            << [k |-> "returned", op |-> "action", app |-> app,
                res |-> execute_application_action(app, action, parameters),
                action |-> action, parameters |-> parameters] >>]
    /\ UNCHANGED <<running_instances, live, workflows, executions, clock,
                   created, history, reply>>

(***************************************************************************)
(* Specifications.  Init is the state after the two global instances       *)
(* application_manager and workflow_engine are constructed.                *)
(***************************************************************************)
Init ==
    /\ running_instances = <<>>
    /\ live = {}
    /\ workflows = DefaultWorkflows
    /\ executions = <<>>
    /\ clock = 0
    /\ created = 0
    /\ stack = [t \in Tasks |-> <<>>]
    /\ history = [cancelled |-> {}, steps |-> <<>>]
    /\ reply = Reply(None, None, None, None, FALSE)

\* What every task of a set may do next on the orchestrator side.
Runtime(t) ==
    \/ LaunchOk(t)
    \/ LaunchFails(t)
    \/ StopOk(t)
    \/ StopFails(t)
    \/ RemoveDone(t)
    \/ SettleDone(t)

ApiCall(c) ==
    \E app \in CallApps :
        \/ CallStart(c, app)
        \/ CallStop(c, app)
        \/ CallRestart(c, app)

\* The orchestrator alone, under concurrent API callers.
NextOrch ==
    \E c \in Callers : ApiCall(c) \/ Runtime(c)

SpecOrch == Init /\ [][NextOrch]_vars

\* One API caller that also executes application actions.
NextAction ==
    \/ ApiCall("c1")
    \/ Runtime("c1")
    \/ \E app \in ActionApps, action \in Actions,
          parameters \in ParameterValues :
            CallAction("c1", app, action, parameters)

SpecAction == Init /\ [][NextAction]_vars

\* The workflow engine on top of the orchestrator.
Engine ==
    \/ \E wid \in WorkflowIds, user \in ExecUsers : execute_workflow(wid, user)
    \/ \E eid \in ExecutionIds : cancel_execution(eid)
    \/ \E steps \in StepData, user \in CreateUsers, is_public \in BOOLEAN :
            create_workflow(steps, user, is_public)
    \/ \E wid \in WorkflowIds, user \in Users : delete_workflow(wid, user)
    \/ \E e \in ExecutionIds :
            \/ UnitStart(e)
            \/ CommandDone(e)
            \/ DelayDone(e)
            \/ Runtime(e)

Next == Engine

Spec == Init /\ [][Next]_vars

\* The workflow definitions alone: created, deleted and listed.
DefinitionStepData ==
    StepData \cup
        { << DelayStep(<<5>>), AppStep("start", "firefox", "stop") >> }

NextDefinitions ==
    \/ \E steps \in DefinitionStepData, user \in Users, is_public \in BOOLEAN :
            create_workflow(steps, user, is_public)
    \/ \E wid \in WorkflowIds, user \in Users : delete_workflow(wid, user)

SpecDefinitions == Init /\ [][NextDefinitions]_vars

\* Executions of one workflow running side by side on the same application.
ConcurrentStepData ==
    { << AppStep("start", "postgresql", "continue"),
         AppStep("restart", "postgresql", "stop") >>,
      << CommandStep("status", "continue"), DelayStep(<<1>>),
         AppStep("stop", "postgresql", "continue") >> }

NextConcurrent ==
    \/ \E steps \in ConcurrentStepData, user \in CreateUsers :
            create_workflow(steps, user, TRUE)
    \/ \E wid \in {CreatedIds[i] : i \in DOMAIN CreatedIds}, user \in ExecUsers :
            execute_workflow_within(wid, user, Cardinality(Units))
    \/ \E eid \in Units : cancel_execution(eid)
    \/ \E e \in Units :
            \/ UnitStart(e)
            \/ CommandDone(e)
            \/ DelayDone(e)
            \/ Runtime(e)

SpecConcurrent == Init /\ [][NextConcurrent]_vars

(***************************************************************************)
(* Properties of the orchestrator.                                         *)
(***************************************************************************)
TopOf(stk) == stk[Len(stk)]
IsRunning(ri, app) == get_application_status(ri, app) = RUNNING

\* In this step caller c calls start(app).
CallsStart(c, app) ==
    /\ Idle(c)
    /\ stack'[c] # stack[c]
    /\ \/ stack'[c][1].k = "start" /\ stack'[c][1].app = app
       \/ /\ stack'[c][1].k = "returned"
          /\ stack'[c][1].op = "start"
          /\ stack'[c][1].app = app

\* In this step a call op(app) of caller c returns res.
Returns(c, op, app, res) ==
    /\ stack'[c] # stack[c]
    /\ stack'[c] = << [k |-> "returned", op |-> op, app |-> app, res |-> res] >>

\* In this step the start(app) of task t invokes the runtime launch of app.
InvokesLaunch(t, app) ==
    /\ stack'[t] # stack[t]
    /\ stack'[t] # <<>>
    /\ TopOf(stack'[t]).k = "start"
    /\ TopOf(stack'[t]).app = app
    /\ TopOf(stack'[t]).pc = "launching"

\* C1. Idempotent start: a start(x) called while x is registered Running (as
\* after a successful start(x) with no stop since) reports success at once,
\* invokes no runtime launch and leaves the registry and the runtime as they
\* were; and whenever a start(x) reports success, x is registered Running.
IdempotentStart ==
    [][\A c \in Callers, app \in CallApps :
          /\ (CallsStart(c, app) /\ IsRunning(running_instances, app)) =>
                /\ Returns(c, "start", app, Ok("AlreadyRunning"))
                /\ running_instances' = running_instances
                /\ live' = live
          /\ \A code \in {"AlreadyRunning", "Started"} :
                Returns(c, "start", app, Ok(code)) =>
                    IsRunning(running_instances', app)]_vars

\* C1 witness: a second start of a running application has returned.
IdempotentStartWitness ==
    \E c \in Callers :
        /\ stack[c] = << [k |-> "returned", op |-> "start", app |-> "odoo",
                          res |-> Ok("AlreadyRunning")] >>
        /\ IsRunning(running_instances, "odoo")

\* In this step the runtime fails to launch dependency number di of app, for
\* the start(app) call of caller c.
DependencyLaunchFails(c, app, di) ==
    /\ Len(stack[c]) = 2
    /\ stack[c][1] = [k |-> "start", app |-> app, pc |-> "deps", di |-> di]
    /\ stack[c][2].k = "start"
    /\ stack[c][2].pc = "launching"
    /\ stack'[c] # stack[c]
    /\ live' = live

\* C2. Dependency failure propagates: when the runtime fails to launch the
\* dependency B of A during start(A), start(A) returns DependencyFailed
\* without invoking the launch of A and registers nothing; with no other
\* caller around, neither A nor B is registered afterwards.
DependencyFailurePropagates ==
    [][\A c \in Callers, app \in CallApps \cap applications :
          \A di \in DOMAIN dependencies(app) :
              DependencyLaunchFails(c, app, di) =>
                  /\ Returns(c, "start", app, Fail("DependencyFailed"))
                  /\ running_instances' = running_instances
                  /\ (\A d \in Tasks \ {c} : stack[d] = <<>>) =>
                        /\ ~Registered(running_instances', app)
                        /\ ~Registered(running_instances', dependencies(app)[di])]_vars

\* C2 witness: start(odoo) has returned DependencyFailed.
DependencyFailureWitness ==
    \E c \in Callers :
        /\ stack[c] = << [k |-> "returned", op |-> "start", app |-> "odoo",
                          res |-> Fail("DependencyFailed")] >>
        /\ ~Registered(running_instances, "odoo")
        /\ ~Registered(running_instances, "postgresql")

\* In this step a stop(app) call of some task ends.
StopEnds(app) ==
    \E t \in Tasks :
        /\ stack[t] # <<>>
        /\ TopOf(stack[t]).k = "stop"
        /\ TopOf(stack[t]).app = app
        /\ TopOf(stack[t]).pc = "removing"
        /\ stack'[t] # stack[t]

\* The launch of an application is invoked only when its dependencies are
\* registered Running.
LaunchAfterDependencies ==
    \A c \in Callers, app \in CallApps \cap applications :
        InvokesLaunch(c, app) =>
            \A di \in DOMAIN dependencies(app) :
                IsRunning(running_instances', dependencies(app)[di])

\* C3 as claimed. Dependency ordering: in every successful start(A), B is
\* registered Running before the launch of A is invoked, and when the call
\* returns both A and B are registered Running.
DependencyOrderingAsClaimed ==
    [][/\ LaunchAfterDependencies
       /\ \A c \in Callers, app \in CallApps \cap applications :
            \A code \in {"AlreadyRunning", "Started"} :
                Returns(c, "start", app, Ok(code)) =>
                    /\ IsRunning(running_instances', app)
                    /\ \A di \in DOMAIN dependencies(app) :
                          IsRunning(running_instances', dependencies(app)[di])]_vars

\* C3 as amended. In every successful start(A) the launch of A is invoked
\* only while B is registered Running, hence before A is registered; when
\* the call returns A is registered Running; and the instance of B leaves
\* the registry only when a stop(B) ends, so listRunning() then holds A, and
\* B as well unless B was stopped.
DependencyOrdering ==
    [][/\ LaunchAfterDependencies
       /\ \A c \in Callers, app \in CallApps \cap applications :
            \A code \in {"AlreadyRunning", "Started"} :
                Returns(c, "start", app, Ok(code)) =>
                    IsRunning(running_instances', app)
       /\ \A app \in applications :
            (Registered(running_instances, app)
                /\ ~Registered(running_instances', app)) => StopEnds(app)]_vars

\* C3 witness: a start(odoo) that launched odoo has returned, both run.
DependencyOrderingWitness ==
    \E c \in Callers :
        /\ stack[c] = << [k |-> "returned", op |-> "start", app |-> "odoo",
                          res |-> Ok("Started")] >>
        /\ IsRunning(running_instances, "odoo")
        /\ IsRunning(running_instances, "postgresql")

\* The tasks whose start(app) is waiting for the runtime launch of app.
Launching(app) ==
    {t \in Tasks : \E j \in DOMAIN stack[t] :
        /\ stack[t][j].k = "start"
        /\ stack[t][j].app = app
        /\ stack[t][j].pc = "launching"}

\* C7. No double launch under concurrency: of the start(name) calls
\* interleaved at their suspension points, at most one has invoked the
\* runtime launch of name and not yet registered the instance.
NoDoubleLaunch ==
    \A app \in applications : Cardinality(Launching(app)) <= 1

(***************************************************************************)
(* Properties of the workflow engine.                                      *)
(***************************************************************************)
Terminal == {COMPLETED, FAILED, CANCELLED}

\* The background task of execution e has ended.
UnitDone(e) == stack[e] # <<>> /\ stack[e][1].pc = "done"

\* The number of steps the task of execution e has dispatched so far.
Dispatched(e) == IF stack[e] = <<>> THEN 0 ELSE stack[e][1].i

\* The step of result record r failed: dispatching it raised an error, or
\* the orchestrator or the command collaborator it called reported failure.
StepFailed(r) == ~r.success \/ ~r.result.success

\* The on_failure policy of the step of record r of execution e.
PolicyOf(e, r) == history.steps[e][r.step_id].on_failure

\* C4. Workflow halts on stop policy: in an uncancelled execution, once the
\* step at index k has failed and its on_failure is stop, the execution is
\* Failed with current_step = k, exactly k+1 result records, the last one
\* marked failed, an error message and a completion timestamp, and its task
\* has ended, so no later step is dispatched.
WorkflowHaltsOnStop ==
    \A e \in DOMAIN executions :
        e \notin history.cancelled =>
            \A k \in DOMAIN executions[e].results :
                LET r == executions[e].results[k] IN
                (StepFailed(r) /\ PolicyOf(e, r) = "stop") =>
                    /\ executions[e].status = FAILED
                    /\ executions[e].current_step = k - 1
                    /\ Len(executions[e].results) = k
                    /\ ~r.success
                    /\ executions[e].error_message # None
                    /\ executions[e].completed_at > 0
                    /\ UnitDone(e)

\* C5. Workflow continues on continue policy: an uncancelled execution of an
\* n-step workflow whose failing steps all have on_failure continue ends
\* Completed with n result records in step order, the records of the
\* failing steps marked failed and all others marked successful.
WorkflowContinuesOnContinue ==
    \A e \in DOMAIN executions :
        LET x == executions[e] IN
        ( /\ UnitDone(e)
          /\ e \notin history.cancelled
          /\ \A k \in DOMAIN x.results :
                StepFailed(x.results[k]) => PolicyOf(e, x.results[k]) = "continue" )
        =>  /\ x.status = COMPLETED
            /\ Len(x.results) = Len(history.steps[e])
            /\ \A k \in DOMAIN x.results :
                  /\ x.results[k].step_id = k
                  /\ x.results[k].success = ~StepFailed(x.results[k])

\* C6. Cancellation is terminal and idempotent: once cancel(id) has returned
\* true, every later cancel(id) returns false and the execution stays
\* Cancelled with its completion timestamp set.
CancellationIsTerminal ==
    \A e \in history.cancelled :
        /\ ~cancel_execution_result(e)
        /\ executions[e].status = CANCELLED
        /\ executions[e].completed_at > 0

\* C8. Terminal executions are immutable: once the status of an execution
\* is Completed, Failed or Cancelled, no step changes its status, completion
\* timestamp, error message, current step or results.
TerminalExecutionsImmutable ==
    [][\A e \in DOMAIN executions :
          executions[e].status \in Terminal => executions'[e] = executions[e]]_vars

\* C9. Cancellation is observed between steps: after cancel(id) returned
\* true the loop dispatches no further step; when the step in flight
\* finishes (its record is appended), the task ends and the status is still
\* Cancelled.
CancellationObservedBetweenSteps ==
    [][\A e \in history.cancelled :
          /\ Dispatched(e)' = Dispatched(e)
          /\ executions'[e].results # executions[e].results =>
                /\ UnitDone(e)'
                /\ executions'[e].status = CANCELLED]_vars

\* C10. Step success mirrors the collaborator: the record of a step whose
\* orchestrator or command collaborator call returned is marked successful
\* exactly when the call reported success.
StepSuccessMirrorsCollaborator ==
    \A e \in DOMAIN executions :
        \A k \in DOMAIN executions[e].results :
            LET r == executions[e].results[k] IN
            r.error = None => r.success = r.result.success

(***************************************************************************)
(* Error handling of the orchestrator.                                     *)
(***************************************************************************)
\* The container the registry holds for app (0: none).
Entry(ri, app) == IF Registered(ri, app) THEN ri[app].container_id ELSE 0

\* In this step the start(app) call of caller c begins, goes on or ends.
StartRuns(c, app) ==
    /\ stack'[c] # stack[c]
    /\ \/ CallsStart(c, app)
       \/ /\ ~Idle(c)
          /\ stack[c][1].k = "start"
          /\ stack[c][1].app = app

\* C11. A failed start registers nothing: no run of a start(name) call
\* other than the one that returns the success of its own launch changes
\* the registry entry of name, so a call that returns failure (NotFound,
\* DependencyFailed, LaunchError, exception) has added no instance for
\* name; and every instance the registry shows is complete: it has a
\* container handle and status Running.
FailedStartRegistersNothing ==
    [][/\ \A c \in Callers, app \in CallApps :
            (StartRuns(c, app) /\ ~Returns(c, "start", app, Ok("Started"))) =>
                Entry(running_instances', app) = Entry(running_instances, app)
       /\ \A a \in DOMAIN running_instances' :
            /\ running_instances'[a].status = RUNNING
            /\ running_instances'[a].container_id > 0]_vars

\* C11 witness: a start whose runtime launch failed has returned LaunchError
\* and the application is not registered.
FailedStartWitness ==
    \E c \in Callers :
        /\ stack[c] = << [k |-> "returned", op |-> "start", app |-> "postgresql",
                          res |-> Fail("LaunchError")] >>
        /\ ~Registered(running_instances, "postgresql")

\* C12. Stop failure marks the instance Error: when the runtime stop of a
\* registered instance fails, stop returns StopError, the instance stays
\* registered and status(name) reports Error.
StopFailureMarksError ==
    [][\A c \in Callers, app \in CallApps :
          Returns(c, "stop", app, Fail("StopError")) =>
              /\ Registered(running_instances', app)
              /\ get_application_status(running_instances', app) = ERROR]_vars

\* In this step a call op(app) of caller c returns.
Ends(c, op, app) ==
    /\ stack'[c] # stack[c]
    /\ stack'[c][1].k = "returned"
    /\ stack'[c][1].op = op
    /\ stack'[c][1].app = app

\* C13. Unknown target: for a name that is not in the catalog, start and
\* stop both return NotFound (not the NotRunning of a catalog application
\* without an instance), at once, without invoking the runtime, and leave
\* the registry unchanged.
UnknownTargetNotFound ==
    [][\A c \in Callers, op \in {"start", "stop"}, app \in CallApps \ applications :
          Ends(c, op, app) =>
              /\ stack'[c][1].res = Fail("NotFound")
              /\ Idle(c)
              /\ running_instances' = running_instances
              /\ live' = live]_vars

(***************************************************************************)
(* Ordering, containment and pinning in the workflow engine.               *)
(***************************************************************************)
\* The task of execution e is suspended inside a step.
InFlight(e) ==
    /\ stack[e] # <<>>
    /\ stack[e][1].pc \in {"application", "command", "delay"}

\* C14. Steps of one execution are strictly sequential: whenever step N+1
\* is in flight the records of steps 1..N are there, in step order; the
\* task awaits one collaborator call at a time, the one of the step in
\* flight; and records are only ever appended.
StepsStrictlySequential ==
    [][\A e \in DOMAIN executions' :
          LET x == executions'[e]
              f == stack'[e][1]
          IN  /\ Len(x.results) <= f.i
              /\ f.i <= Len(x.results) + 1
              /\ InFlight(e)' => f.i = Len(x.results) + 1
              /\ \A k \in DOMAIN x.results : x.results[k].step_id = k
              /\ Cardinality({j \in DOMAIN stack'[e] :
                                  stack'[e][j].k = "unit"}) = 1
              /\ Len(stack'[e]) > 1 =>
                    /\ f.pc = "application"
                    /\ stack'[e][2].k = f.steps[f.i].action
                    /\ stack'[e][2].app = f.steps[f.i].application
              /\ e \in DOMAIN executions =>
                    /\ Len(executions[e].results) <= Len(x.results)
                    /\ SubSeq(x.results, 1, Len(executions[e].results))
                          = executions[e].results]_vars

\* C14 witness: the third step is in flight and two records are there.
StepsSequentialWitness ==
    \E e \in DOMAIN executions :
        /\ InFlight(e)
        /\ stack[e][1].i = 3
        /\ Len(executions[e].results) = 2

\* C15. Step errors are contained: an execution is Failed only through a
\* failed step whose on_failure is stop, the error being in that step's
\* record; nothing else (such as deleting the definition) turns an
\* execution Failed.
StepErrorsContained ==
    \A e \in DOMAIN executions :
        LET x == executions[e] IN
        x.status = FAILED =>
            /\ x.results # <<>>
            /\ ~x.results[Len(x.results)].success
            /\ x.results[Len(x.results)].error = x.error_message
            /\ PolicyOf(e, x.results[Len(x.results)]) = "stop"

\* C16. Pinned step snapshot: whatever is deleted after execute_workflow
\* returned the id, the task runs the steps the workflow had at that
\* moment and ends as it would have without the deletion.
PinnedStepSnapshot ==
    \A e \in DOMAIN executions :
        stack[e][1].pc # "scheduled" =>
            /\ stack[e][1].steps = history.steps[e]
            /\ executions[e].error_message # "KeyError"

(***************************************************************************)
(* The contracts of execute_workflow and cancel_execution.                 *)
(***************************************************************************)
\* In this step op(arg) of the workflow engine is called and answers.
Answers(op, arg) ==
    /\ reply' # reply
    /\ reply'.op = op
    /\ reply'.arg = arg

\* C17. execute: for an unknown workflow id it fails (NotFound) and changes
\* nothing; for a known one it registers exactly one new execution under a
\* fresh id, Pending, at step 0, without results or completion time, and
\* returns the id while the task is only scheduled: no step has run.  No
\* other step adds an execution.
ExecuteContract ==
    [][/\ \A wid \in WorkflowIds :
            Answers("execute", wid) =>
                IF wid \notin DOMAIN workflows
                THEN /\ ~reply'.ok
                     /\ reply'.id = None
                     /\ executions' = executions
                     /\ stack' = stack
                ELSE LET eid == reply'.id IN
                     /\ reply'.ok
                     /\ eid \notin DOMAIN executions
                     /\ DOMAIN executions' = DOMAIN executions \cup {eid}
                     /\ \A o \in DOMAIN executions :
                            executions'[o] = executions[o]
                     /\ executions'[eid].workflow_id = wid
                     /\ executions'[eid].status = PENDING
                     /\ executions'[eid].current_step = 0
                     /\ executions'[eid].results = <<>>
                     /\ executions'[eid].completed_at = 0
                     /\ stack'[eid] = <<UnitFrame(eid)>>
                     /\ running_instances' = running_instances
                     /\ live' = live
       /\ DOMAIN executions' # DOMAIN executions =>
            \E wid \in WorkflowIds : Answers("execute", wid)]_vars

\* C17 witness: execute_workflow has returned the id of a Pending execution
\* whose task has not run yet.
ExecuteWitness ==
    /\ reply.op = "execute"
    /\ reply.ok
    /\ reply.id \in DOMAIN executions
    /\ executions[reply.id].status = PENDING
    /\ stack[reply.id] = <<UnitFrame(reply.id)>>

\* C18. cancel is a no-op unless Running: for an unknown id or an execution
\* that is Pending, Completed, Failed or Cancelled it returns false and
\* changes no execution; for a Running one it sets Cancelled, stamps the
\* completion time, leaves the results alone and returns true.
CancelContract ==
    [][\A eid \in Tasks \ Callers :
          Answers("cancel", eid) =>
              IF eid \in DOMAIN executions /\ executions[eid].status = RUNNING
              THEN /\ reply'.ok
                   /\ executions'[eid].status = CANCELLED
                   /\ executions'[eid].completed_at = clock'
                   /\ clock' > clock
                   /\ executions'[eid].results = executions[eid].results
              ELSE /\ ~reply'.ok
                   /\ executions' = executions]_vars

\* C18 witness: cancel of a Completed execution has returned false.
CancelWitness ==
    \E eid \in DOMAIN executions :
        /\ reply = Reply("cancel", eid, None, None, FALSE)
        /\ executions[eid].status = COMPLETED

\* The task of execution e is suspended with a timer armed that will wake
\* it whatever its collaborators do.
TimerArmed(e) ==
    \/ Waiting(e, "unit", "delay")
    \/ Waiting(e, "restart", "sleeping")

\* C19. Per-step timeout: whenever the task of a Running execution is
\* suspended inside a step, a timer is armed that ends the wait, so a
\* collaborator call that never returns cannot keep the execution Running
\* forever: the step is cut off and recorded as failed.
StepTimeoutArmed ==
    \A e \in DOMAIN executions :
        (executions[e].status = RUNNING /\ InFlight(e)) => TimerArmed(e)

(***************************************************************************)
(* restart_application                                                     *)
(***************************************************************************)
\* Caller c is inside restart(app), its stop(app) not yet over.
RestartStopping(c, app) ==
    /\ ~Idle(c)
    /\ stack[c][1].k = "restart"
    /\ stack[c][1].app = app
    /\ TopOf(stack[c]).k = "stop"

\* C20. restart: restart(name) performs stop(name) and then start(name):
\* its start begins only after its stop has succeeded and the settle delay
\* is over; when the stop fails (no instance registered included) restart
\* returns that failure in the same run, leaves the registry as it is and
\* never reaches start, so it invokes no runtime launch.
RestartContract ==
    [][\A c \in Callers, app \in CallApps :
          /\ ( /\ stack'[c] # stack[c]
               /\ Len(stack'[c]) > 1
               /\ stack'[c][1].k = "restart"
               /\ stack'[c][1].app = app
               /\ stack'[c][2].k = "start" ) =>
                  /\ ~Idle(c)
                  /\ stack[c][1].k = "restart"
                  /\ stack[c][1].pc \in {"sleeping", "start"}
                  /\ stack'[c][2].app = app
          /\ ( /\ stack'[c] # stack[c]
               /\ stack'[c][1] = [k |-> "restart", app |-> app, pc |-> "sleeping"] ) =>
                  /\ RestartStopping(c, app)
                  /\ ~Registered(running_instances', app)
          /\ (Ends(c, "restart", app) /\ (Idle(c) \/ RestartStopping(c, app))) =>
                  /\ stack'[c][1].res \in
                        {Fail("NotRunning"), Fail("StopError"), Fail("Exception")}
                  /\ running_instances' = running_instances
          /\ (Ends(c, "restart", app) /\ stack'[c][1].res.success) =>
                  /\ ~Idle(c)
                  /\ \/ TopOf(stack[c]).k = "start"
                     \/ stack[c] = << [k |-> "restart", app |-> app,
                                       pc |-> "sleeping"] >>
                  /\ IsRunning(running_instances', app)]_vars

\* C20 witness: a restart whose runtime stop failed has returned StopError;
\* the instance is still registered.
RestartWitness ==
    \E c \in Callers :
        /\ stack[c] = << [k |-> "returned", op |-> "restart", app |-> "postgresql",
                          res |-> Fail("StopError")] >>
        /\ Registered(running_instances, "postgresql")

ReadsNeverRaise ==
    \A eid \in Tasks \ Callers :
        /\ get_execution_status(eid).outcome # "raise"
        /\ eid \notin DOMAIN executions =>
                get_execution_status(eid).outcome = None
        /\ eid \in DOMAIN executions =>
                /\ get_execution_status(eid).outcome = "view"
                /\ get_execution_status(eid).view.status = executions[eid].status

\* C30. stop deregisters only on full runtime success: whenever a stop(app)
\* returns success and the instance leaves the registry, both the runtime stop
\* and the runtime remove of its handle succeeded, so the runtime no longer
\* holds the container of that handle.
StopDeregistersOnlyOnFullSuccess ==
    [][\A c \in Callers, app \in CallApps :
          (/\ Returns(c, "stop", app, Ok("Stopped"))
           /\ TopOf(stack[c]).k = "stop") =>
              TopOf(stack[c]).h \notin live']_vars

\* C27. Status transitions go forward through the intermediate states: the
\* observable status of an application never moves from Stopped to Running in
\* one step of the orchestrator, without having been Starting in between.
NoDirectStoppedToRunning ==
    [][\A app \in applications :
          ~(/\ get_application_status(running_instances, app) = STOPPED
            /\ get_application_status(running_instances', app) = RUNNING)]_vars

(***************************************************************************)
(* Properties of execute_application_action.                               *)
(***************************************************************************)
\* Caller c holds the result of a call that has returned to it.
Holds(c) == IF stack[c] = <<>> THEN FALSE ELSE stack[c][1].k = "returned"

\* C23. Orchestrator operations never throw: whatever start, stop, restart
\* or execute_application_action hands back to its caller is a structured
\* result with a success flag, never an exception.
OperationsNeverThrow ==
    \A c \in Callers : Holds(c) => "success" \in DOMAIN stack[c][1].res

\* C26. An action call fails with NotFound for a name outside the catalog,
\* with the not-controllable failure for a catalog application that is not AI
\* controllable, and with the not-supported failure for a controllable
\* application that does not recognise the action id; the call leaves the
\* instance registry and the runtime unchanged.
Recognised(app, action) ==
    \/ action = "open_document" /\ app = "libreoffice"
    \/ action = "create_project" /\ app = "vscode"

ActionUnsupported ==
    [][\A c \in Callers, app \in ActionApps :
          Ends(c, "action", app) =>
              LET f == stack'[c][1] IN
              /\ running_instances' = running_instances
              /\ live' = live
              /\ app \notin applications => f.res = Fail("NotFound")
              /\ app \in {"postgresql", "mongodb"} =>
                      f.res = Fail("NotControllable")
              /\ (/\ app \in applications \ {"postgresql", "mongodb"}
                  /\ ~Recognised(app, f.action)) =>
                      f.res = Fail("Unsupported")]_vars

\* An action call on the uncontrollable postgresql has been refused while
\* postgresql is registered and running.
ActionUnsupportedWitness ==
    /\ Holds("c1")
    /\ stack["c1"][1].op = "action"
    /\ stack["c1"][1].app = "postgresql"
    /\ stack["c1"][1].res = Fail("NotControllable")
    /\ IsRunning(running_instances, "postgresql")

(***************************************************************************)
(* Properties of list_workflows.                                           *)
(***************************************************************************)
RECURSIVE SumOver(_, _)
SumOver(S, val) ==
    IF S = {} THEN 0
    ELSE LET x == CHOOSE y \in S : TRUE IN val[x] + SumOver(S \ {x}, val)

OfType(steps, types) == {i \in DOMAIN steps : steps[i].type \in types}

\* C24. Estimated duration is additive: the estimate list_workflows reports
\* for a workflow is 5 for every application step, 2 for every command step,
\* 1 for every step of another kind that is not a delay, plus the configured
\* durations of its delay steps (1 for a delay without one); it is 0 for a
\* workflow without steps.
EstimateAdditive ==
    \A id \in DOMAIN workflows :
        LET steps == workflows[id].steps
            Configured == [i \in DOMAIN steps |->
                              IF steps[i].duration = <<>> THEN 1
                              ELSE steps[i].duration[1]]
            listed == list_workflows(None, workflows[id].created_by)
        IN  /\ id \in DOMAIN listed
            /\ listed[id].estimated_duration =
                   5 * Cardinality(OfType(steps, {"application"}))
                 + 2 * Cardinality(OfType(steps, {"command"}))
                 + Cardinality(DOMAIN steps \
                        OfType(steps, {"application", "command", "delay"}))
                 + SumOver(OfType(steps, {"delay"}), Configured)
            /\ steps = <<>> => listed[id].estimated_duration = 0

\* The created workflow of a delay configured with 2 seconds, a condition
\* step and a command step is listed with the estimate 2 + 1 + 2.
EstimateWitness ==
    /\ "w1" \in DOMAIN workflows
    /\ workflows["w1"].steps # <<>>
    /\ workflows["w1"].steps[1] = DelayStep(<<2>>)
    /\ list_workflows("custom", "alice")["w1"].estimated_duration = 5

\* C25. Listing visibility: list_workflows(category, user_id) returns exactly
\* the workflows that match the category filter, when one is given, and are
\* public or were created by user_id; in particular a private workflow is
\* listed to nobody but its creator.
ListingVisibility ==
    \A category \in Categories, user_id \in ListUsers :
        LET listed == DOMAIN list_workflows(category, user_id) IN
        /\ listed =
              {id \in DOMAIN workflows :
                  /\ category = None \/ workflows[id].category = category
                  /\ \/ workflows[id].is_public
                     \/ workflows[id].created_by = user_id}
        /\ \A id \in listed :
              ~workflows[id].is_public => workflows[id].created_by = user_id

\* The private workflow alice created is listed to alice and not to bob.
ListingWitness ==
    /\ "w1" \in DOMAIN workflows
    /\ ~workflows["w1"].is_public
    /\ "w1" \in DOMAIN list_workflows(None, "alice")
    /\ "w1" \notin DOMAIN list_workflows(None, "bob")
    /\ "w1" \notin DOMAIN list_workflows("custom", None)

(***************************************************************************)
(* Further properties of the workflow engine.                              *)
(***************************************************************************)
\* C28. Retry policy has no retry behaviour: a step whose on_failure is
\* retry and whose dispatch raised has exactly one result record, and the
\* uncancelled execution then ends as with on_failure stop: it is Failed,
\* that record is its last one, and its task has ended without dispatching
\* a later step.
RetryEndsAsStop ==
    \A e \in DOMAIN executions :
        e \notin history.cancelled =>
            \A k \in DOMAIN executions[e].results :
                LET r == executions[e].results[k] IN
                (~r.success /\ PolicyOf(e, r) = "retry") =>
                    /\ Cardinality({j \in DOMAIN executions[e].results :
                          executions[e].results[j].step_id = r.step_id}) = 1
                    /\ executions[e].status = FAILED
                    /\ Len(executions[e].results) = k
                    /\ Dispatched(e) = k
                    /\ UnitDone(e)

\* C29. Every execution terminates in Completed when nothing stops it: once
\* the task of an execution that was never cancelled has ended and no step
\* of it failed, the execution is Completed with one result record per step
\* of the workflow it was created for.
CompletesWithOneRecordPerStep ==
    \A e \in DOMAIN executions :
        ( /\ UnitDone(e)
          /\ e \notin history.cancelled
          /\ \A k \in DOMAIN executions[e].results :
                ~StepFailed(executions[e].results[k]) )
        =>  /\ executions[e].status = COMPLETED
            /\ Len(executions[e].results) = Len(history.steps[e])

(***************************************************************************)
(* Further properties of the orchestrator.                                 *)
(***************************************************************************)
\* C31. Registry stays consistent with the runtime under interleaving: a
\* stop removes from the registry only the instance whose handle it stopped.
\* Whenever a step takes the entry of an application out of the registry,
\* the task taking the step is in a stop whose handle is the container id
\* of the removed entry.
StopRemovesOnlyItsInstance ==
    [][\A app \in applications :
          (Registered(running_instances, app)
             /\ ~Registered(running_instances', app)) =>
              \E t \in Tasks :
                  /\ stack'[t] # stack[t]
                  /\ ~Idle(t)
                  /\ TopOf(stack[t]).k = "stop"
                  /\ TopOf(stack[t]).h = running_instances[app].container_id]_vars

\* In this step the runtime launch of app itself, awaited by the start(app)
\* call of caller c after its dependencies were started, fails.
OwnLaunchFails(c, app) ==
    /\ stack[c] = << [k |-> "start", app |-> app, pc |-> "launching",
                      di |-> Len(dependencies(app))] >>
    /\ stack'[c] # stack[c]
    /\ ~stack'[c][1].res.success

\* C32. No rollback of dependencies: when the launch of A fails after
\* start(A) started its dependency B, start(A) returns failure and the step
\* leaves the registry and the runtime as they are, so B stays registered
\* and Running as long as nobody stops it; with no other caller around, A is
\* unregistered and B registered and Running afterwards.  When the launch of
\* a dependency fails, everything registered before stays registered.
NoRollbackOfDependencies ==
    [][\A c \in Callers, app \in CallApps \cap applications :
          /\ (dependencies(app) # <<>> /\ OwnLaunchFails(c, app)) =>
                /\ \/ Returns(c, "start", app, Fail("LaunchError"))
                   \/ Returns(c, "start", app, Fail("Exception"))
                /\ running_instances' = running_instances
                /\ live' = live
                /\ (\A d \in Tasks \ {c} : stack[d] = <<>>) =>
                      /\ ~Registered(running_instances', app)
                      /\ \A i \in DOMAIN dependencies(app) :
                            IsRunning(running_instances', dependencies(app)[i])
          /\ \A di \in DOMAIN dependencies(app) :
                DependencyLaunchFails(c, app, di) =>
                    \A a \in DOMAIN running_instances :
                        /\ Registered(running_instances', a)
                        /\ running_instances'[a] = running_instances[a]]_vars

\* start(odoo) has returned the failure of its own launch while nobody else
\* called anything: odoo is unregistered, postgresql registered and Running.
NoRollbackWitness ==
    /\ stack["c1"] = << [k |-> "returned", op |-> "start", app |-> "odoo",
                         res |-> Fail("LaunchError")] >>
    /\ stack["c2"] = <<>>
    /\ ~Registered(running_instances, "odoo")
    /\ IsRunning(running_instances, "postgresql")

\* C33. Result-log invariant: in every state, every execution has
\* current_step >= 0, at most current_step + 1 result records and at most
\* one per step of its workflow, the i-th record carries the id of the i-th
\* step, a Pending execution has no record and a Completed execution has
\* exactly one record per step.
ResultLogInvariant ==
    \A e \in DOMAIN executions :
        LET x == executions[e] IN
        /\ x.current_step >= 0
        /\ Len(x.results) <= x.current_step + 1
        /\ Len(x.results) <= Len(history.steps[e])
        /\ \A k \in DOMAIN x.results : x.results[k].step_id = k
        /\ x.status = PENDING => x.results = <<>>
        /\ x.status = COMPLETED => Len(x.results) = Len(history.steps[e])

\* An execution of a workflow of three steps is Completed with three
\* records, the first of a failed step.
ResultLogWitness ==
    \E e \in DOMAIN executions :
        /\ executions[e].status = COMPLETED
        /\ Len(executions[e].results) = 3
        /\ ~executions[e].results[1].success
        /\ executions[e].results[3].success
        /\ executions[e].current_step = 2

\* What the claim on independence speaks of: status, current step, results
\* and error message of execution e in the dictionary ex.
Progress(ex, e) ==
    << ex[e].status, ex[e].current_step, ex[e].results, ex[e].error_message >>

\* C34. Executions are independent: a step that changes the status, current
\* step, results or error message of an execution is a run of the task of
\* that execution or a cancellation of that execution, and it changes none
\* of these of any other execution, also when the executions run the same
\* workflow on the same application.
ExecutionsIndependent ==
    [][\A e \in DOMAIN executions :
          Progress(executions', e) # Progress(executions, e) =>
              /\ \/ stack'[e] # stack[e]
                 \/ e \in history'.cancelled \ history.cancelled
              /\ \A o \in DOMAIN executions \ {e} :
                    Progress(executions', o) = Progress(executions, o)]_vars

\* Two executions of the same workflow on postgresql: the first was
\* cancelled with one record, the second completed with all its records.
ExecutionsIndependentWitness ==
    /\ DOMAIN executions = {"e1", "e2"}
    /\ executions["e1"].workflow_id = executions["e2"].workflow_id
    /\ executions["e1"].status = CANCELLED
    /\ Len(executions["e1"].results) = 1
    /\ executions["e2"].status = COMPLETED
    /\ Len(executions["e2"].results) = Len(history.steps["e2"])
    /\ Len(history.steps["e2"]) > 1

\* The step names no dispatcher that exists: its kind is neither command,
\* application nor delay, or it is an application step with a missing or
\* unrecognised action or application, or a command step without command.
Unimplemented(step) ==
    \/ step.type \notin {"command", "application", "delay"}
    \/ /\ step.type = "application"
       /\ \/ step.action \notin {"start", "stop", "restart"}
          \/ step.application = ""
    \/ step.type = "command" /\ step.command = ""

\* C35. Unimplemented step kinds fail as steps: in an uncancelled execution
\* the record of such a step is a failed record carrying the error raised at
\* dispatch, and the on_failure policy of the step is then applied: with
\* continue the execution goes on, with the halting policies stop and retry
\* the execution is Failed, the record is its last one and its task ended.
UnimplementedStepsFail ==
    \A e \in DOMAIN executions :
        e \notin history.cancelled =>
            \A k \in DOMAIN executions[e].results :
                LET r == executions[e].results[k]
                    step == history.steps[e][k]
                IN  Unimplemented(step) =>
                        /\ ~r.success
                        /\ r.error = "ValueError"
                        /\ r.result = NoResult
                        /\ step.on_failure # "continue" =>
                              /\ executions[e].status = FAILED
                              /\ Len(executions[e].results) = k
                              /\ UnitDone(e)

\* In this step task t runs a stop(app): it calls it, or its pending stop of
\* app is resumed by the runtime.
StopRuns(t, app) ==
    /\ stack'[t] # stack[t]
    /\ IF Idle(t)
       THEN /\ stack'[t][1].app = app
            /\ \/ stack'[t][1].k = "stop"
               \/ stack'[t][1].k = "returned" /\ stack'[t][1].op = "stop"
       ELSE TopOf(stack[t]).k = "stop" /\ TopOf(stack[t]).app = app

\* C36. stop touches only its target: no run of a stop(name) changes the
\* registry entry of another application; stopping postgresql while odoo,
\* which depends on it, is registered leaves odoo registered and Running.
StopTouchesOnlyTarget ==
    [][\A t \in Callers, app \in CallApps :
          StopRuns(t, app) =>
              \A a \in applications \ {app} :
                  /\ Registered(running_instances', a)
                        = Registered(running_instances, a)
                  /\ Registered(running_instances, a) =>
                        running_instances'[a] = running_instances[a]]_vars

\* stop(postgresql) has returned success and postgresql is unregistered
\* while odoo, which depends on it, is still registered and Running.
StopTargetWitness ==
    /\ \E c \in Callers :
          stack[c] = << [k |-> "returned", op |-> "stop", app |-> "postgresql",
                         res |-> Ok("Stopped")] >>
    /\ ~Registered(running_instances, "postgresql")
    /\ IsRunning(running_instances, "odoo")

\* The applications app lists as dependencies, and everything reached from
\* a set of applications in at most n dependency steps.
DependsOn(app) == {dependencies(app)[i] : i \in DOMAIN dependencies(app)}

RECURSIVE ReachedFrom(_, _)
ReachedFrom(S, n) ==
    IF n = 0 THEN S
    ELSE ReachedFrom(S \cup UNION {DependsOn(a) : a \in S}, n - 1)

\* C37. Catalog dependency graph is well-formed: every dependency a catalog
\* definition lists is a catalog name, no application is reached from its
\* own dependencies, and accordingly the nested start calls of a task never
\* enter the start of an application they are already inside of.
CatalogWellFormed ==
    /\ \A app \in applications : DependsOn(app) \subseteq applications
    /\ \A app \in applications :
          app \notin ReachedFrom(DependsOn(app), Cardinality(applications))
    /\ \A t \in Tasks :
          \A i, j \in DOMAIN stack[t] :
              (i < j /\ stack[t][i].k = "start" /\ stack[t][j].k = "start") =>
                  stack[t][i].app # stack[t][j].app

\* The recursive start of odoo has come back: inside start(odoo) the start
\* of its dependency postgresql was entered and returned, and start(odoo)
\* has returned success to a caller who called nothing else before.
CatalogWitness ==
    /\ stack["c1"] = << [k |-> "returned", op |-> "start", app |-> "odoo",
                         res |-> Ok("Started")] >>
    /\ stack["c2"] = <<>>
    /\ Cardinality(live) = 2
    /\ IsRunning(running_instances, "odoo")
    /\ IsRunning(running_instances, "postgresql")
====
